---- MODULE Spec2Model ----
(***************************************************************************)
(* Model of quickstart/v12/src/full-text-search.ts: the linear async       *)
(* script main() and its helpers, run against the remote search service.   *)
(* Every segment of code between two awaits is one action; the service's   *)
(* answer to the awaited request is chosen by the action that resumes the  *)
(* script.  A document is represented by its key (HotelId).                *)
(***************************************************************************)
EXTENDS Integers, Sequences, FiniteSets, TLC

\* Longest input record set (hotels.json "value" array) explored.
MaxHotels == 2

\* Keys that occur in the explored record sets; "3" is the key looked up.
HotelIds == {"2", "3"}

\* process.env values: unset, set to the empty string, or set.
Undefined == "undefined"
EnvValues == {Undefined, "", "set"}

VARIABLES
    env,                  \* process.env: SEARCH_API_ENDPOINT, SEARCH_API_KEY
    hotels,               \* the input record set (sequence of keys)
    pc,                   \* position of main()
    err,                  \* the error main()'s promise rejected with
    log,                  \* console output, one record per line
    calls,                \* remote steps issued so far, in issue order
    outcomes,             \* outcome of each settled step, in the same order
    inflight,             \* operations issued and not yet settled
    indexClient,          \* TRUE once the SearchIndexClient was constructed
    indexExists,          \* service: the index exists
    stored,               \* service: keys accepted into the index
    visible,              \* service: keys already indexed (countable, searchable)
    indexDocumentsResult, \* loadData: the upload result (sequence of flags)
    documentCount,        \* main: the count returned (-1 before)
    delivered,            \* sendQueries: result sequence the service sent per query
    query,                \* sendQueries: number of the query being run
    documentResult,       \* sendQueries: key of the document looked up
    exitCode              \* process exit code (-1 while running)

vars == <<env, hotels, pc, err, log, calls, outcomes, inflight, indexClient,
          indexExists, stored, visible, indexDocumentsResult, documentCount,
          delivered, query, documentResult, exitCode>>

svcVars == <<indexExists, stored, visible>>

----------------------------------------------------------------------------
\* Helpers

Line(m, a) == [msg |-> m, arg |-> a]

IsPrefix(s, t) == Len(s) <= Len(t) /\ \A i \in 1..Len(s) : s[i] = t[i]

Range(s) == {s[i] : i \in 1..Len(s)}

SeqsUpTo(S, n) == UNION {[1..k -> S] : k \in 0..n}

Perms(S) == {s \in [1..Cardinality(S) -> S] :
                \A i, j \in 1..Cardinality(S) : s[i] = s[j] => i = j}

CountLines(m) == Cardinality({i \in 1..Len(log) : log[i].msg = m})

\* JSON.stringify of a boolean
JSONBool(b) == IF b THEN "true" ELSE "false"

----------------------------------------------------------------------------
\* Configuration (lines 55-56, 60)

OrEmpty(v) == IF v = Undefined \/ v = "" THEN "" ELSE v

endpoint == OrEmpty(env.SEARCH_API_ENDPOINT)
apiKey == OrEmpty(env.SEARCH_API_KEY)

ConfigMissing_Both == endpoint = "" /\ apiKey = ""
ConfigMissing == endpoint = "" \/ apiKey = ""

----------------------------------------------------------------------------
\* Console lines

MsgRunning == "Running Azure AI Search Javascript quickstart..."
MsgConfig == "Make sure to set valid values for endpoint and apiKey with proper authorization."
MsgChecking == "Checking if index exists..."
MsgDeleting == "Deleting index..."
MsgNotExist == "Index does not exist yet."
MsgCreating == "Creating index..."
MsgCreated == "Index named has been created."
MsgUploading == "Uploading documents..."
MsgUploadResult == "indexDocumentsResult"
MsgSucceeded == "Index operations succeeded:"
MsgCount == "docs uploaded"
MsgQuerying == "Querying the index..."
MsgDoc == "result.document"
MsgResultCount == "Result count:"
MsgBlank == ""
MsgLookup == "HotelId:"
MsgError == "The sample encountered an error:"

QueryHeader(q) ==
    CASE q = 1 -> "Query #1 - search everything:"
      [] q = 2 -> "Query #2 - search with filter, orderBy, and select:"
      [] q = 3 -> "Query #3 - limit searchFields:"
      [] q = 4 -> "Query #4 - limit searchFields and use facets:"
      [] q = 5 -> "Query #5 - Lookup document:"

----------------------------------------------------------------------------
\* Remote steps

QueryCall_Swapped(q) ==
    CASE q = 1 -> "search1" [] q = 2 -> "search3"
      [] q = 3 -> "search2" [] q = 4 -> "search4"
QueryCall(q) ==
    CASE q = 1 -> "search1" [] q = 2 -> "search2"
      [] q = 3 -> "search3" [] q = 4 -> "search4"

LookupKey_Other == "2"
LookupKey == "3"

\* The request `done` settles with `outcome` and the script issues `next`.
Await(done, outcome, next) ==
    /\ outcomes' = Append(outcomes, outcome)
    /\ calls' = Append(calls, next)
    /\ inflight' = (inflight \ {done}) \cup {next}

\* The request `done` settles with `outcome`; nothing is issued.
Settle(done, outcome) ==
    /\ outcomes' = Append(outcomes, outcome)
    /\ inflight' = inflight \ {done}
    /\ UNCHANGED calls

\* An exception leaves main(): its promise rejects with e.
Throw_Swallow(e) == pc' = "returned" /\ err' = "none"
Throw(e) == pc' = "rejected" /\ err' = e

----------------------------------------------------------------------------
\* The service's possible answers

DeleteOutcomes == IF indexExists THEN {"ok", "ServiceError"}
                  ELSE {"IndexNotFound", "ServiceError"}

CreateOutcomes == IF indexExists THEN {"ServiceError"}
                  ELSE {"ok", "ServiceError"}

\* Result sequences the service may send for query q: "*" (queries 1 and 4)
\* matches every indexed document, the others some of them; the order is
\* the service's.
Matches(q) ==
    IF q \in {1, 4} THEN Perms(visible)
    ELSE UNION {Perms(S) : S \in SUBSET visible}

----------------------------------------------------------------------------
Init ==
    /\ env \in [{"SEARCH_API_ENDPOINT", "SEARCH_API_KEY"} -> EnvValues]
    /\ hotels \in SeqsUpTo(HotelIds, MaxHotels)
    /\ pc = "start"
    /\ err = "none"
    /\ log = <<>>
    /\ calls = <<>>
    /\ outcomes = <<>>
    /\ inflight = {}
    /\ indexClient = FALSE
    /\ indexExists \in BOOLEAN
    /\ stored \in (IF indexExists THEN SUBSET HotelIds ELSE {{}})
    /\ visible = stored
    /\ indexDocumentsResult = <<>>
    /\ documentCount = -1
    /\ delivered = [q \in 1..4 |-> <<>>]
    /\ query = 0
    /\ documentResult = "none"
    /\ exitCode = -1

\* main, lines 58-72 (up to the await in deleteIndexIfExists, line 116)
MainStart ==
    /\ pc = "start"
    /\ IF ConfigMissing
       THEN /\ log' = log \o <<Line(MsgRunning, ""), Line(MsgConfig, "")>>
            /\ pc' = "returned"
            /\ UNCHANGED <<calls, inflight, indexClient>>
       ELSE /\ indexClient' = TRUE
            /\ log' = log \o <<Line(MsgRunning, ""), Line(MsgChecking, "")>>
            /\ calls' = Append(calls, "deleteIndex")
            /\ inflight' = inflight \cup {"deleteIndex"}
            /\ pc' = "await_delete"
    /\ UNCHANGED <<env, hotels, err, outcomes, svcVars, indexDocumentsResult,
                   documentCount, delivered, query, documentResult, exitCode>>

\* catch { ... } of deleteIndexIfExists, line 118: no binding, no rethrow
Caught_None(e) == FALSE
Caught(e) == TRUE

\* deleteIndexIfExists resumes, lines 116-120; main lines 74-75
DeleteIndexSettled ==
    /\ pc = "await_delete"
    /\ \E o \in DeleteOutcomes :
        IF o = "ok"
        THEN /\ indexExists' = FALSE
             /\ stored' = {}
             /\ visible' = {}
             /\ log' = log \o <<Line(MsgDeleting, ""), Line(MsgCreating, "")>>
             /\ Await("deleteIndex", o, "createIndex")
             /\ pc' = "await_create"
             /\ UNCHANGED err
        ELSE /\ UNCHANGED svcVars
             /\ IF Caught(o)
                THEN /\ log' = log \o <<Line(MsgNotExist, ""), Line(MsgCreating, "")>>
                     /\ Await("deleteIndex", o, "createIndex")
                     /\ pc' = "await_create"
                     /\ UNCHANGED err
                ELSE /\ Settle("deleteIndex", o)
                     /\ Throw(o)
                     /\ UNCHANGED log
    /\ UNCHANGED <<env, hotels, indexClient, indexDocumentsResult,
                   documentCount, delivered, query, documentResult, exitCode>>

\* main resumes after createIndex, lines 75-82; loadData lines 103-105
CreateIndexSettled ==
    /\ pc = "await_create"
    /\ \E o \in CreateOutcomes :
        IF o = "ok"
        THEN /\ indexExists' = TRUE
             /\ log' = log \o <<Line(MsgCreated, ""), Line(MsgUploading, "")>>
             /\ Await("createIndex", o, "mergeOrUploadDocuments")
             /\ pc' = "await_upload"
             /\ UNCHANGED err
        ELSE /\ Settle("createIndex", o)
             /\ Throw(o)
             /\ UNCHANGED <<indexExists, log>>
    /\ UNCHANGED <<env, hotels, indexClient, stored, visible,
                   indexDocumentsResult, documentCount, delivered, query,
                   documentResult, exitCode>>

\* lines 109-111: what loadData does with the result's flags
FlagLines(results) == <<Line(MsgSucceeded, JSONBool(results[1]))>>

FlagsThrow_OnFailure(results) == Len(results) = 0 \/ ~results[1]
FlagsThrow(results) == Len(results) = 0

\* loadData resumes, lines 105-111; main lines 84-85 (sleep, line 194)
UploadSettled ==
    /\ pc = "await_upload"
    /\ \/ \E flags \in [1..Len(hotels) -> BOOLEAN] :
            /\ stored' = stored \cup {hotels[i] : i \in {j \in 1..Len(hotels) : flags[j]}}
            /\ indexDocumentsResult' = flags
            /\ IF FlagsThrow(flags)
               THEN /\ log' = Append(log, Line(MsgUploadResult, ""))
                    /\ Settle("mergeOrUploadDocuments", "ok")
                    /\ Throw("TypeError")
               ELSE /\ log' = log \o <<Line(MsgUploadResult, "")>> \o FlagLines(flags)
                    /\ Await("mergeOrUploadDocuments", "ok", "sleep")
                    /\ pc' = "await_sleep"
                    /\ UNCHANGED err
       \/ /\ Settle("mergeOrUploadDocuments", "ServiceError")
          /\ Throw("ServiceError")
          /\ UNCHANGED <<stored, indexDocumentsResult, log>>
    /\ UNCHANGED <<env, hotels, indexClient, indexExists, visible,
                   documentCount, delivered, query, documentResult, exitCode>>

\* the timer of sleep(1000) fires, lines 85-88
SleepElapsed ==
    /\ pc = "await_sleep"
    /\ Await("sleep", "ok", "getDocumentsCount")
    /\ pc' = "await_count"
    /\ UNCHANGED <<env, hotels, err, log, indexClient, svcVars,
                   indexDocumentsResult, documentCount, delivered, query,
                   documentResult, exitCode>>

\* main resumes after getDocumentsCount, lines 88-96; sendQueries 126-137
CountSettled ==
    /\ pc = "await_count"
    /\ \/ /\ documentCount' = Cardinality(visible)
          /\ log' = log \o <<Line(MsgCount, ToString(Cardinality(visible))),
                             Line(MsgQuerying, ""), Line(MsgBlank, ""),
                             Line(QueryHeader(1), "")>>
          /\ query' = 1
          /\ Await("getDocumentsCount", "ok", QueryCall(1))
          /\ pc' = "await_search"
          /\ UNCHANGED err
       \/ /\ Settle("getDocumentsCount", "ServiceError")
          /\ Throw("ServiceError")
          /\ UNCHANGED <<documentCount, log, query>>
    /\ UNCHANGED <<env, hotels, indexClient, svcVars, indexDocumentsResult,
                   delivered, documentResult, exitCode>>

\* sendQueries resumes after search, lines 137, 153, 166, 180
SearchSettled ==
    /\ pc = "await_search"
    /\ \/ \E r \in Matches(query) :
            /\ delivered' = [delivered EXCEPT ![query] = r]
            /\ Settle(QueryCall(query), "ok")
            /\ pc' = "iterate"
            /\ UNCHANGED err
       \/ /\ Settle(QueryCall(query), "ServiceError")
          /\ Throw("ServiceError")
          /\ UNCHANGED delivered
    /\ UNCHANGED <<env, hotels, log, indexClient, svcVars,
                   indexDocumentsResult, documentCount, query,
                   documentResult, exitCode>>

\* Console lines of documents printed for query q: the result lines that
\* follow the query's header.
Printed(q) ==
    LET heads == {i \in 1..Len(log) : log[i].msg = QueryHeader(q)}
    IN  IF heads = {} THEN <<>>
        ELSE LET lo == CHOOSE i \in heads : TRUE
                 n == Cardinality({i \in lo+1..Len(log) :
                          /\ log[i].msg = MsgDoc
                          /\ \A j \in lo+1..i : log[j].msg = MsgDoc})
             IN  [j \in 1..n |-> log[lo + j].arg]

\* for await (const result of searchResults.results): the element the
\* iterator yields after n elements were consumed
NextResult_Reversed(results, n) == results[Len(results) - n]
NextResult(results, n) == results[n + 1]

\* one pass of the loop body, lines 138-140, 154-156, 167-169, 181-183
PrintResult ==
    /\ pc = "iterate"
    /\ Len(Printed(query)) < Len(delivered[query])
    /\ log' = Append(log, Line(MsgDoc,
                  NextResult(delivered[query], Len(Printed(query)))))
    /\ UNCHANGED <<env, hotels, pc, err, calls, outcomes, inflight,
                   indexClient, svcVars, indexDocumentsResult, documentCount,
                   delivered, query, documentResult, exitCode>>

\* the iterator is exhausted: lines 141-153, 157-166, 170-180, 184-188
LoopExit ==
    /\ pc = "iterate"
    /\ Len(Printed(query)) >= Len(delivered[query])
    /\ LET tail == IF query = 1
                   THEN <<Line(MsgResultCount, ToString(Len(delivered[1]))),
                          Line(MsgBlank, "")>>
                   ELSE <<Line(MsgBlank, "")>>
       IN  log' = log \o tail \o <<Line(QueryHeader(query + 1), "")>>
    /\ IF query < 4
       THEN /\ query' = query + 1
            /\ calls' = Append(calls, QueryCall(query + 1))
            /\ inflight' = inflight \cup {QueryCall(query + 1)}
            /\ pc' = "await_search"
       ELSE /\ query' = 5
            /\ calls' = Append(calls, "getDocument")
            /\ inflight' = inflight \cup {"getDocument"}
            /\ pc' = "await_lookup"
    /\ UNCHANGED <<env, hotels, err, outcomes, indexClient, svcVars,
                   indexDocumentsResult, documentCount, delivered,
                   documentResult, exitCode>>

\* sendQueries resumes after getDocument('3'), lines 188-191; main returns
LookupSettled ==
    /\ pc = "await_lookup"
    /\ \/ /\ LookupKey \in visible
          /\ documentResult' = LookupKey
          /\ log' = log \o <<Line(MsgLookup, LookupKey), Line(MsgBlank, "")>>
          /\ Settle("getDocument", "ok")
          /\ pc' = "returned"
          /\ UNCHANGED err
       \/ /\ LookupKey \notin visible
          /\ Settle("getDocument", "DocumentNotFound")
          /\ Throw("DocumentNotFound")
          /\ UNCHANGED <<documentResult, log>>
       \/ /\ Settle("getDocument", "ServiceError")
          /\ Throw("ServiceError")
          /\ UNCHANGED <<documentResult, log>>
    /\ UNCHANGED <<env, hotels, indexClient, svcVars, indexDocumentsResult,
                   documentCount, delivered, query, exitCode>>

\* main().catch((err) => console.error(...)), lines 196-198
TopLevelCatch ==
    /\ pc = "rejected"
    /\ log' = Append(log, Line(MsgError, err))
    /\ pc' = "handled"
    /\ UNCHANGED <<env, hotels, err, calls, outcomes, inflight, indexClient,
                   svcVars, indexDocumentsResult, documentCount, delivered,
                   query, documentResult, exitCode>>

\* Nothing is left to run: the process ends.  Neither main nor the handler
\* sets process.exitCode or calls process.exit, and the rejection was
\* handled, so the code is the default.
ProcessExit ==
    /\ pc \in {"returned", "handled"}
    /\ pc' = "exited"
    /\ exitCode' = 0
    /\ UNCHANGED <<env, hotels, err, log, calls, outcomes, inflight,
                   indexClient, svcVars, indexDocumentsResult, documentCount,
                   delivered, query, documentResult>>

\* The service indexes an accepted document in its own time.
Indexer ==
    /\ indexExists
    /\ \E k \in stored \ visible : visible' = visible \cup {k}
    /\ UNCHANGED <<env, hotels, pc, err, log, calls, outcomes, inflight,
                   indexClient, indexExists, stored, indexDocumentsResult,
                   documentCount, delivered, query, documentResult, exitCode>>

Next ==
    \/ MainStart
    \/ DeleteIndexSettled
    \/ CreateIndexSettled
    \/ UploadSettled
    \/ SleepElapsed
    \/ CountSettled
    \/ SearchSettled
    \/ PrintResult
    \/ LoopExit
    \/ LookupSettled
    \/ TopLevelCatch
    \/ ProcessExit
    \/ Indexer

Spec == Init /\ [][Next]_vars

----------------------------------------------------------------------------
\* Properties

\* The order of the remote steps in the source text of main and sendQueries.
StepOrder ==
    <<"deleteIndex", "createIndex", "mergeOrUploadDocuments", "sleep",
      "getDocumentsCount", "search1", "search2", "search3", "search4",
      "getDocument">>

Failed(i) == i <= Len(outcomes) /\ outcomes[i] # "ok"

Stopped == pc \in {"rejected", "handled", "exited"}

\* C1: with endpoint and API key both set, the steps issued so far are
\* always an initial part of delete, create, upload, delay, count, query 1,
\* query 2, query 3, query 4, lookup (so none is repeated or out of order),
\* and a step is issued only when every earlier one has settled.
C1_LinearOrder ==
    (endpoint # "" /\ apiKey # "") =>
        /\ IsPrefix(calls, StepOrder)
        /\ Cardinality(inflight) <= 1
        /\ inflight # {} => inflight = {calls[Len(calls)]}
        /\ Len(outcomes) = Len(calls) - Cardinality(inflight)

C1_Witness == pc = "exited" /\ calls = StepOrder /\ err = "none"

\* C2: when the endpoint or the API key is missing or empty, main logs the
\* configuration message and returns; no client is constructed, no remote
\* step is issued and the top-level handler never runs.
C2_MissingConfig ==
    (endpoint = "" \/ apiKey = "") =>
        /\ calls = <<>>
        /\ inflight = {}
        /\ ~indexClient
        /\ err = "none"
        /\ pc \in {"start", "returned", "exited"}
        /\ CountLines(MsgError) = 0
        /\ pc # "start" =>
              log = <<Line(MsgRunning, ""), Line(MsgConfig, "")>>

C2_Witness ==
    /\ pc = "exited"
    /\ env.SEARCH_API_ENDPOINT = "set"
    /\ env.SEARCH_API_KEY = ""
    /\ CountLines(MsgConfig) = 1

\* C3: when deleteIndex fails because the index does not exist,
\* deleteIndexIfExists completes normally (the error does not leave it) and
\* main issues createIndex.
C3_DeleteMissingIndex ==
    (Len(outcomes) >= 1 /\ outcomes[1] = "IndexNotFound") =>
        /\ Len(calls) >= 2
        /\ calls[2] = "createIndex"
        /\ CountLines(MsgNotExist) = 1
        /\ err # "IndexNotFound"
        /\ err # "none" => Len(outcomes) >= 2

C3_Witness ==
    /\ Len(outcomes) >= 2
    /\ outcomes[1] = "IndexNotFound"
    /\ outcomes[2] = "ok"

\* C4: the run goes on past a failed remote step only if that step is the
\* index deletion and the failure is index-not-found.
C4_OnlyNotFoundRecovered ==
    \A i \in 1..Len(outcomes) :
        (Failed(i) /\ Len(calls) > i) =>
            (i = 1 /\ outcomes[1] = "IndexNotFound")

\* C5: a failure of create, upload, count, a query or the lookup is the
\* last remote step of the run, it is the error main rejects with, and the
\* top-level handler logs it exactly once.
C5_ServiceErrorFatal ==
    /\ CountLines(MsgError) <= 1
    /\ \A i \in 2..Len(outcomes) :
          Failed(i) =>
              /\ Len(calls) = i
              /\ inflight = {}
              /\ err = outcomes[i]
              /\ Stopped
              /\ CountLines(MsgError) = (IF pc = "rejected" THEN 0 ELSE 1)

C5_Witness ==
    /\ pc = "exited"
    /\ Len(outcomes) = 7
    /\ outcomes[7] = "ServiceError"
    /\ log[Len(log)] = Line(MsgError, "ServiceError")

\* C6: the process exit code is 0 exactly when no error reached the
\* top-level handler.
C6_ExitCode == pc = "exited" => (exitCode = 0 <=> err = "none")

\* C7: the document count the run reports equals the number of unique keys
\* of the input record set.
C7_CountEqualsUniqueKeys ==
    documentCount # -1 => documentCount = Cardinality(Range(hotels))

\* C8: at most one remote operation is in flight; none is in flight while
\* results are printed; the documents printed for a query are an initial
\* part of the sequence the service delivered, in the same order; and once
\* a later query has been issued they are that whole sequence.
C8_Sequential ==
    /\ Cardinality(inflight) <= 1
    /\ pc = "iterate" => inflight = {}
    /\ \A q \in 1..4 :
          /\ IsPrefix(Printed(q), delivered[q])
          /\ q < query => Printed(q) = delivered[q]

C8_Witness ==
    /\ query = 5
    /\ delivered[1] = <<"3", "2">>
    /\ Printed(1) = <<"3", "2">>
    /\ Len(Printed(2)) = 1

\* C9: the lookup asks for key "3".  When the service answers it, the
\* answer is a record with key "3" if such a record is in the index, and
\* then main returns without error; otherwise it is a not-found error,
\* which main rejects with and the top-level handler logs, queries 1 to 4
\* having completed before.
C9_LookupState ==
    /\ documentResult # "none" =>
          /\ documentResult = "3"
          /\ "3" \in visible
          /\ err = "none"
          /\ pc \in {"returned", "exited"}
          /\ outcomes[10] = "ok"
    /\ (Len(outcomes) = 10 /\ outcomes[10] = "ok") => documentResult = "3"
    /\ (Len(outcomes) = 10 /\ outcomes[10] = "DocumentNotFound") =>
          /\ err = "DocumentNotFound"
          /\ Stopped
          /\ CountLines(MsgError) = (IF pc = "rejected" THEN 0 ELSE 1)
          /\ \A q \in 1..4 :
                outcomes[5 + q] = "ok" /\ Printed(q) = delivered[q]

\* the step in which the service answers the lookup
C9_LookupAnswer ==
    (pc = "await_lookup" /\ pc' # "await_lookup") =>
        /\ outcomes'[10] = "ok" => "3" \in visible
        /\ outcomes'[10] = "DocumentNotFound" => "3" \notin visible

C9_Lookup == []C9_LookupState /\ [][C9_LookupAnswer]_vars

C9_Witness ==
    /\ pc = "handled"
    /\ Len(outcomes) = 10
    /\ outcomes[10] = "DocumentNotFound"
    /\ "2" \in visible

\* C10: whatever the flags of a non-empty upload result are, loadData
\* returns normally after logging the first entry's flag only, and main
\* goes on to the delay; an error of the run comes from a later step.
C10_FlagsIgnored ==
    (Len(outcomes) >= 3 /\ outcomes[3] = "ok"
        /\ Len(indexDocumentsResult) >= 1) =>
        /\ Len(calls) >= 4
        /\ calls[4] = "sleep"
        /\ err # "TypeError"
        /\ err # "none" => Len(outcomes) >= 5
        /\ \E i \in 1..Len(log) :
              /\ log[i] = Line(MsgSucceeded, JSONBool(indexDocumentsResult[1]))
              /\ \A j \in 1..Len(log) : log[j].msg = MsgSucceeded => j = i

C10_Witness ==
    /\ calls = StepOrder
    /\ Len(indexDocumentsResult) >= 1
    /\ \A i \in 1..Len(indexDocumentsResult) : ~indexDocumentsResult[i]

====
